---- MODULE Spec2Model ----
(***************************************************************************)
(* Model of linspm (src/main.rs): a parallel HTTP range downloader.        *)
(*                                                                         *)
(*   main            HEAD probe, FileInfo::new, one future per block,      *)
(*                   future::join_all                                      *)
(*   FileInfo::new   partition of the resource into blocks                 *)
(*   Block::download ranged GET, then write_file at the block's start      *)
(*   write_file      open(create, write) and FileExt::write_at             *)
(*                                                                         *)
(* Offsets are 0-based as in the source; a byte sequence keeps byte at     *)
(* offset i at index i + 1.  All quantities stay far below 2^64, so the    *)
(* u64 arithmetic of the source never wraps within the bounds used here.   *)
(***************************************************************************)
EXTENDS Integers, Sequences, FiniteSets, TLC

VARIABLES
    resource,   \* the remote resource: a sequence of bytes
    headers,    \* headers of the HEAD response (main.rs:26-27)
    thread,     \* the `thread: u8` argument of FileInfo::new
    mainPc,     \* position of main: "new", "spawn", "join", "returned", "panicked"
    panic,      \* which unwrap / arithmetic check aborted the process ("none" if none)
    info,       \* the FileInfo built by FileInfo::new
    join,       \* the vector of futures pushed at main.rs:34-39, one record each
    file        \* the destination file: [exists, data]

vars == <<resource, headers, thread, mainPc, panic, info, join, file>>

----------------------------------------------------------------------------
(* Bounds *)

\* largest content-length of a complete run
MaxLen == 4
\* largest thread argument of a complete run
MaxThread == 3
\* largest content-length / thread argument when only the plan is built
MaxPlanLen == 12
MaxPlanThread == 6
\* largest prior file, buffer and offset when only write_file is applied
MaxFileLen == 3
MaxBufLen == 2
MaxOffset == 4

----------------------------------------------------------------------------
(* Helpers *)

Min(a, b) == IF a < b THEN a ELSE b
Max(a, b) == IF a > b THEN a ELSE b

\* Option<T> as a sequence of length at most one
None == <<>>
Some(v) == <<v>>

\* a header value that is not the decimal text of a u64
NotANumber == -1

\* the bytes of a resource of n bytes; non-zero, so that the zero bytes a
\* positional write leaves in a hole are distinguishable from content
ResourceOfLen(n) == [i \in 1..n |-> ((i - 1) % 255) + 1]

----------------------------------------------------------------------------
(* FileInfo::new, main.rs:100-172 *)

\* Block::new, main.rs:189-196
Block_new(id, start, end) ==
    [id |-> id, start |-> start, end |-> end, is_done |-> FALSE]

\* the loop with `start = end` in place of `start = end + 1`
RECURSIVE PushBlocksOverlap(_, _, _, _, _)
PushBlocksOverlap(blocks, id, end, block_offset, n) ==
    IF n = 0 THEN blocks
    ELSE PushBlocksOverlap(Append(blocks, Block_new(id + 1, end, end + block_offset)),
                           id + 1, end + block_offset, block_offset, n - 1)

\* the loop advancing end by block_offset + 1
RECURSIVE PushBlocksWide(_, _, _, _, _)
PushBlocksWide(blocks, id, end, block_offset, n) ==
    IF n = 0 THEN blocks
    ELSE PushBlocksWide(Append(blocks, Block_new(id + 1, end + 1, end + block_offset + 1)),
                        id + 1, end + block_offset + 1, block_offset, n - 1)

\* the loop of main.rs:148-154: n more blocks after the block that ends at end
RECURSIVE PushBlocks(_, _, _, _, _)
PushBlocks(blocks, id, end, block_offset, n) ==
    IF n = 0 THEN blocks
    ELSE PushBlocks(Append(blocks, Block_new(id + 1, end + 1, end + block_offset)),
                    id + 1, end + block_offset, block_offset, n - 1)

\* the loop running over 0..blocks_count - 2
BuildBlocksShort(block_offset, block_offset_head, blocks_count) ==
    PushBlocks(<<[id |-> 0, start |-> 0, end |-> block_offset_head, is_done |-> FALSE]>>,
               0, block_offset_head, block_offset, blocks_count - 2)

\* main.rs:136-154
BuildBlocks(block_offset, block_offset_head, blocks_count) ==
    PushBlocks(<<[id |-> 0, start |-> 0, end |-> block_offset_head, is_done |-> FALSE]>>,
               0, block_offset_head, block_offset, blocks_count - 1)

\* main.rs:111-134, the match on the content-type header
FileTypeOf(ct) ==
    IF ct = None THEN "Unknow"
    ELSE CASE ct[1] = "video/mp4"       -> "Png"
           [] ct[1] = "application/ogg" -> "Ogg"
           [] ct[1] = "image/jpeg"      -> "Jpeg"
           [] ct[1] = "image/png"       -> "Png"
           [] OTHER                     -> "Unknow"

\* Display for FileType writing "jpeg" for Jpeg
FileTypeFmtJpeg(t) ==
    CASE t = "Png"  -> "png"
      [] t = "Jpeg" -> "jpeg"
      [] t = "Mp4"  -> "mp4"
      [] t = "Ogg"  -> "ogg"
      [] OTHER      -> ""

\* Display for FileType, main.rs:85-97
FileTypeFmt(t) ==
    CASE t = "Png"  -> "png"
      [] t = "Jpeg" -> "jpg"
      [] t = "Mp4"  -> "mp4"
      [] t = "Ogg"  -> "ogg"
      [] OTHER      -> ""

\* The panic FileInfo::new runs into, "none" if it returns.
\* main.rs:101-110 in evaluation order.
PlanPanic(h, t) ==
    IF h.content_length = None THEN "unwrap on None"             \* :103
    ELSE IF h.content_length[1] = NotANumber THEN "ParseIntError" \* :107
    ELSE IF t = 0 THEN "divide by zero"                          \* :108
    ELSE IF h.content_length[1] \div t = 0
         THEN "remainder by zero"                                \* :109
    ELSE "none"

NoInfo ==
    [len |-> 0, thread |-> 0, block_offset |-> 0, block_offset_head |-> 0,
     blocks_count |-> 0, blocks |-> <<>>, has_write |-> 0,
     suffix |-> "", save_as |-> "", flag_range |-> FALSE]

\* FileInfo::new planning a single block when the server does not advertise
\* accept-ranges: bytes
FileInfo_newRangeAware(h, save_as, t) ==
    LET len               == h.content_length[1]
        block_offset      == len \div t
        block_offset_head == len % block_offset
        blocks_count      == (len \div block_offset) + 1
        file_type         == FileTypeOf(h.content_type)
        flag_range        == IF h.accept_ranges = None THEN FALSE
                             ELSE h.accept_ranges[1] = "bytes"
    IN  [len               |-> len,
         thread            |-> t,
         block_offset      |-> block_offset,
         block_offset_head |-> block_offset_head,
         blocks_count      |-> blocks_count,
         blocks            |-> IF flag_range
                               THEN BuildBlocks(block_offset, block_offset_head, blocks_count)
                               ELSE <<Block_new(0, 0, len - 1)>>,
         has_write         |-> 0,
         suffix            |-> FileTypeFmt(file_type),
         save_as           |-> <<save_as, ".", FileTypeFmt(file_type)>>,
         flag_range        |-> flag_range]

\* the value FileInfo::new returns when it does not panic
FileInfo_new(h, save_as, t) ==
    LET len               == h.content_length[1]
        block_offset      == len \div t
        block_offset_head == len % block_offset
        blocks_count      == (len \div block_offset) + 1
        file_type         == FileTypeOf(h.content_type)
    IN  [len               |-> len,
         thread            |-> t,
         block_offset      |-> block_offset,
         block_offset_head |-> block_offset_head,
         blocks_count      |-> blocks_count,
         blocks            |-> BuildBlocks(block_offset, block_offset_head, blocks_count),
         has_write         |-> 0,
         suffix            |-> FileTypeFmt(file_type),
         save_as           |-> <<save_as, ".", FileTypeFmt(file_type)>>,
         flag_range        |-> IF h.accept_ranges = None THEN FALSE
                               ELSE h.accept_ranges[1] = "bytes"]

----------------------------------------------------------------------------
(* The server and the file system *)

\* format!("bytes={}-{}", self.start, self.end), main.rs:205
RangeHeader(start, end) == <<"bytes=", start, "-", end>>

\* The body of the response to a ranged GET (main.rs:209-210): the bytes of
\* the inclusive range, clamped to the end of the resource; empty when the
\* range starts at or after the end.
RangeBody(res, range) ==
    LET start == range[2]
        end   == Min(range[4], Len(res) - 1)
    IN  IF start > end THEN <<>> ELSE SubSeq(res, start + 1, end + 1)

\* FileExt::write_at (main.rs:240) accepting the first n bytes of bytes at
\* offset: a hole between the old end of file and offset reads as zeros, and
\* nothing outside [offset, offset + n) changes.
WriteAt(data, bytes, offset, n) ==
    LET size == IF n = 0 THEN Len(data) ELSE Max(Len(data), offset + n)
    IN  [i \in 1..size |->
            IF offset < i /\ i <= offset + n THEN bytes[i - offset]
            ELSE IF i <= Len(data) THEN data[i]
            ELSE 0]

\* write_file, main.rs:235-241: open with create(true).write(true) (no
\* truncation), then one write_at, whose Ok(n) may report fewer bytes than
\* the buffer holds.
write_file(f, bytes, offset, n) ==
    [exists |-> TRUE, data |-> WriteAt(f.data, bytes, offset, n)]

----------------------------------------------------------------------------
(* main, main.rs:14-42 *)

\* the future pushed for block f at main.rs:35-38, not yet polled
NewTask(f) ==
    [f |-> f, state |-> "Pending", request |-> <<>>, bytes |-> <<>>, writes |-> <<>>]

Tasks == 1..Len(join)

\* FileInfo::new falling back to a length of 1 when content-length is absent
NewFileInfoDefaultLen ==
    /\ mainPc = "new"
    /\ LET h == IF headers.content_length = None
                THEN [headers EXCEPT !.content_length = Some(1)]
                ELSE headers
       IN  IF PlanPanic(h, thread) # "none"
           THEN /\ mainPc' = "panicked"
                /\ panic' = PlanPanic(h, thread)
                /\ info' = info
           ELSE /\ mainPc' = "spawn"
                /\ panic' = panic
                /\ info' = FileInfo_new(h, "w", thread)
    /\ UNCHANGED <<resource, headers, thread, join, file>>

\* FileInfo::new with the thread count clamped to the length, so that the
\* block size is never 0 for a non-empty resource
NewFileInfoClamped ==
    /\ mainPc = "new"
    /\ LET t == IF /\ headers.content_length # None
                   /\ headers.content_length[1] >= 1
                   /\ thread > headers.content_length[1]
                THEN headers.content_length[1]
                ELSE thread
       IN  IF PlanPanic(headers, t) # "none"
           THEN /\ mainPc' = "panicked"
                /\ panic' = PlanPanic(headers, t)
                /\ info' = info
           ELSE /\ mainPc' = "spawn"
                /\ panic' = panic
                /\ info' = FileInfo_new(headers, "w", t)
    /\ UNCHANGED <<resource, headers, thread, join, file>>

\* main.rs:29
NewFileInfo ==
    /\ mainPc = "new"
    /\ IF PlanPanic(headers, thread) # "none"
       THEN /\ mainPc' = "panicked"
            /\ panic' = PlanPanic(headers, thread)
            /\ info' = info
       ELSE /\ mainPc' = "spawn"
            /\ panic' = panic
            /\ info' = FileInfo_new(headers, "w", thread)
    /\ UNCHANGED <<resource, headers, thread, join, file>>

\* the futures built but never awaited: main returns right after the loop
BuildJoinNoAwait ==
    /\ mainPc = "spawn"
    /\ join' = [i \in 1..Len(info.blocks) |-> NewTask(info.blocks[i])]
    /\ mainPc' = "returned"
    /\ UNCHANGED <<resource, headers, thread, panic, info, file>>

\* main.rs:31-39
BuildJoin ==
    /\ mainPc = "spawn"
    /\ join' = [i \in 1..Len(info.blocks) |-> NewTask(info.blocks[i])]
    /\ mainPc' = "join"
    /\ UNCHANGED <<resource, headers, thread, panic, info, file>>

\* Block::download up to the first await, main.rs:203-209
SendRequest(i) ==
    /\ mainPc = "join"
    /\ join[i].state = "Pending"
    /\ join' = [join EXCEPT ![i].state = "Fetching",
                            ![i].request = Append(@, RangeHeader(join[i].f.start, join[i].f.end))]
    /\ UNCHANGED <<resource, headers, thread, mainPc, panic, info, file>>

\* main.rs:209-210, the response and its whole body have arrived
ReceiveBody(i) ==
    /\ mainPc = "join"
    /\ join[i].state = "Fetching"
    /\ join' = [join EXCEPT ![i].state = "Writing",
                            ![i].bytes = RangeBody(resource, join[i].request[1])]
    /\ UNCHANGED <<resource, headers, thread, mainPc, panic, info, file>>

\* a failed fetch that is retried: the task goes back to Pending
FetchFailRetry(i) ==
    /\ mainPc = "join"
    /\ join[i].state = "Fetching"
    /\ join' = [join EXCEPT ![i].state = "Pending"]
    /\ UNCHANGED <<resource, headers, thread, mainPc, panic, info, file>>

\* a failed fetch that fails its own task only and lets the others run on
FetchFailIsolated(i) ==
    /\ mainPc = "join"
    /\ join[i].state = "Fetching"
    /\ join' = [join EXCEPT ![i].state = "Failed"]
    /\ UNCHANGED <<resource, headers, thread, mainPc, panic, info, file>>

\* main.rs:209-210, unwrap on a transport error: the process aborts
FetchFail(i) ==
    /\ mainPc = "join"
    /\ join[i].state = "Fetching"
    /\ join' = [join EXCEPT ![i].state = "Failed"]
    /\ mainPc' = "panicked"
    /\ panic' = "fetch"
    /\ UNCHANGED <<resource, headers, thread, info, file>>

\* the body written at the block's end instead of its start
WriteFileAtEnd(i) ==
    /\ mainPc = "join"
    /\ join[i].state = "Writing"
    /\ \E n \in 0..Len(join[i].bytes) :
          /\ file' = write_file(file, join[i].bytes, join[i].f.end, n)
          /\ join' = [join EXCEPT ![i].state = "Completed",
                                  ![i].writes = Append(@, [offset |-> join[i].f.end,
                                                           len |-> Len(join[i].bytes), n |-> n])]
    /\ UNCHANGED <<resource, headers, thread, mainPc, panic, info>>

\* main.rs:212-216 and :37, write_file returned Ok(n)
WriteFile(i) ==
    /\ mainPc = "join"
    /\ join[i].state = "Writing"
    /\ \E n \in 0..Len(join[i].bytes) :
          /\ file' = write_file(file, join[i].bytes, join[i].f.start, n)
          /\ join' = [join EXCEPT ![i].state = "Completed",
                                  ![i].writes = Append(@, [offset |-> join[i].f.start,
                                                           len |-> Len(join[i].bytes), n |-> n])]
    /\ UNCHANGED <<resource, headers, thread, mainPc, panic, info>>

\* main.rs:212-214, unwrap on an io::Error: open failed (file untouched) or
\* write_at failed after open created the file
WriteFail(i) ==
    /\ mainPc = "join"
    /\ join[i].state = "Writing"
    /\ \E created \in BOOLEAN :
          file' = IF created THEN [file EXCEPT !.exists = TRUE] ELSE file
    /\ join' = [join EXCEPT ![i].state = "Failed"]
    /\ mainPc' = "panicked"
    /\ panic' = "write"
    /\ UNCHANGED <<resource, headers, thread, info>>

\* a join that resolves as soon as one future has finished
JoinAny ==
    /\ mainPc = "join"
    /\ \E i \in Tasks : join[i].state = "Completed"
    /\ mainPc' = "returned"
    /\ UNCHANGED <<resource, headers, thread, panic, info, join, file>>

\* future::join_all(join).await resolves, main.rs:41-42
JoinAll ==
    /\ mainPc = "join"
    /\ \A i \in Tasks : join[i].state = "Completed"
    /\ mainPc' = "returned"
    /\ UNCHANGED <<resource, headers, thread, panic, info, join, file>>

----------------------------------------------------------------------------
(* Specifications *)

ContentLengths(n) == {None, Some(NotANumber), Some(n)}

InitWith(lens, threads, ranges, types) ==
    /\ \E n \in lens :
          /\ resource = ResourceOfLen(n)
          /\ \E cl \in ContentLengths(n), ar \in ranges, ct \in types :
                headers = [content_length |-> cl, accept_ranges |-> ar, content_type |-> ct]
    /\ thread \in threads
    /\ mainPc = "new"
    /\ panic = "none"
    /\ info = NoInfo
    /\ join = <<>>
    /\ file \in {[exists |-> FALSE, data |-> <<>>], [exists |-> TRUE, data |-> <<>>]}

\* a complete run
Init ==
    InitWith(0..MaxLen, 0..MaxThread, {None, Some("bytes")}, {Some("image/jpeg")})

Next ==
    \/ NewFileInfo
    \/ BuildJoin
    \/ \E i \in Tasks : SendRequest(i)
    \/ \E i \in Tasks : ReceiveBody(i)
    \/ \E i \in Tasks : FetchFail(i)
    \/ \E i \in Tasks : WriteFile(i)
    \/ \E i \in Tasks : WriteFail(i)
    \/ JoinAll

Spec == Init /\ [][Next]_vars

\* a run in which no fetch and no write fails and every request is answered;
\* the runtime keeps polling main, and join_all every future that can move
NextNoFail ==
    \/ NewFileInfo
    \/ BuildJoin
    \/ \E i \in Tasks : SendRequest(i)
    \/ \E i \in Tasks : ReceiveBody(i)
    \/ \E i \in Tasks : WriteFile(i)
    \/ JoinAll

SpecLive == Init /\ [][NextNoFail]_vars /\ WF_vars(NextNoFail)

\* FileInfo::new alone, over a wider range of inputs
ContentTypes ==
    {None, Some("video/mp4"), Some("application/ogg"), Some("image/jpeg"),
     Some("image/png"), Some("audio/ogg"), Some("text/html")}

PlanInit ==
    InitWith((0..MaxPlanLen) \cup {1000}, 0..MaxPlanThread,
             {None, Some("bytes"), Some("none")}, ContentTypes)

PlanNext == NewFileInfo

SpecPlan == PlanInit /\ [][PlanNext]_vars

\* write_file alone: one task that holds a fetched body and is about to write
\* it at its block's start into a file with arbitrary prior content
PriorFiles ==
    {[exists |-> FALSE, data |-> <<>>]} \cup
    {[exists |-> TRUE, data |-> d] : d \in UNION {[1..k -> {0, 9}] : k \in 0..MaxFileLen}}

WriteInit ==
    /\ \E m \in 0..MaxBufLen, offset \in 0..MaxOffset :
          /\ resource = ResourceOfLen(offset + m)
          /\ join = <<[f       |-> Block_new(0, offset, offset + m - 1),
                       state   |-> "Writing",
                       request |-> <<RangeHeader(offset, offset + m - 1)>>,
                       bytes   |-> [k \in 1..m |-> (offset + k)],
                       writes  |-> <<>>]>>
    /\ headers = [content_length |-> Some(Len(resource)), accept_ranges |-> None,
                  content_type |-> None]
    /\ thread = 1
    /\ mainPc = "join"
    /\ panic = "none"
    /\ info = NoInfo
    /\ file \in PriorFiles

WriteNext == \E i \in Tasks : WriteFile(i)

SpecWrite == WriteInit /\ [][WriteNext]_vars

----------------------------------------------------------------------------
(* Properties of the plan *)

\* FileInfo::new has returned a plan
PlanBuilt == mainPc \notin {"new", "panicked"} \/ info.blocks # <<>>

\* the inputs of the plan
TotalLength == headers.content_length[1]
Parallelism == thread

BlockRange(b) == b.start..b.end
BlockIds == 1..Len(info.blocks)
Covered == UNION {BlockRange(info.blocks[k]) : k \in BlockIds}
PairwiseDisjoint ==
    \A k, l \in BlockIds : k # l => BlockRange(info.blocks[k]) \cap BlockRange(info.blocks[l]) = {}
Bounds(b) == <<b.id, b.start, b.end>>

\* C1: the blocks of every plan are pairwise disjoint and their union is
\* exactly [0, totalLength - 1].
C1_ExactCover ==
    PlanBuilt => /\ Covered = 0..(TotalLength - 1)
                 /\ PairwiseDisjoint

\* C3: with parallelism 1 the plan is one block [0, totalLength - 1].
C3_SingleBlock ==
    (PlanBuilt /\ Parallelism = 1) =>
        /\ Len(info.blocks) = 1
        /\ info.blocks[1].start = 0
        /\ info.blocks[1].end = TotalLength - 1

\* C4: the plan has parallelism blocks when parallelism divides totalLength,
\* and parallelism + 1 blocks otherwise.
C4_BlockCount ==
    PlanBuilt =>
        Len(info.blocks) = IF TotalLength % Parallelism = 0
                           THEN Parallelism ELSE Parallelism + 1

\* C5: the plan is the partition of the rule: with baseBlockSize =
\* totalLength / parallelism, remainderSize = totalLength % baseBlockSize and
\* blockCount = totalLength / baseBlockSize + 1, block 0 is [0, remainderSize]
\* and each later block i has id i, starts one past its predecessor's end and
\* covers baseBlockSize bytes.
C5_PartitionRule ==
    PlanBuilt =>
        LET baseBlockSize == TotalLength \div Parallelism
            remainderSize == TotalLength % baseBlockSize
            blockCount    == (TotalLength \div baseBlockSize) + 1
        IN  /\ baseBlockSize >= 1
            /\ Len(info.blocks) = blockCount
            /\ Bounds(info.blocks[1]) = <<0, 0, remainderSize>>
            /\ \A k \in 2..blockCount :
                  /\ info.blocks[k].id = k - 1
                  /\ info.blocks[k].start = info.blocks[k - 1].end + 1
                  /\ info.blocks[k].end - info.blocks[k].start + 1 = baseBlockSize

\* a plan with a non-zero remainder and at least two full-size blocks
C5_Witness ==
    /\ PlanBuilt
    /\ info.block_offset_head > 0
    /\ Len(info.blocks) >= 3

\* C6: totalLength 1000 with parallelism 4 gives the five blocks
\* [0,0], [1,250], [251,500], [501,750], [751,1000] with ids 0..4.
C6_Golden ==
    (PlanBuilt /\ TotalLength = 1000 /\ Parallelism = 4) =>
        [k \in BlockIds |-> Bounds(info.blocks[k])] =
            <<(<<0, 0, 0>>), <<1, 1, 250>>, <<2, 251, 500>>, <<3, 501, 750>>, <<4, 751, 1000>>>>

C6_Witness == PlanBuilt /\ TotalLength = 1000 /\ Parallelism = 4

\* C10: parallelism 0 is rejected with InvalidParallelism and totalLength 0
\* with EmptyResource, and planning never divides or takes a remainder by zero.
C10_Rejected ==
    (mainPc # "new" /\ headers.content_length # None /\ TotalLength # NotANumber) =>
        /\ Parallelism = 0 => panic = "InvalidParallelism"
        /\ (Parallelism > 0 /\ TotalLength = 0) => panic = "EmptyResource"
        /\ panic \notin {"divide by zero", "remainder by zero"}

----------------------------------------------------------------------------
(* Properties of a run *)

AllCompleted == join # <<>> /\ \A i \in Tasks : join[i].state = "Completed"

\* C2: once every block task has completed, the file has totalLength bytes
\* and equals the resource byte for byte.
C2_FileIsResource ==
    AllCompleted => /\ file.exists
                    /\ Len(file.data) = TotalLength
                    /\ file.data = resource

\* the offsets task i has passed to the file: [start, start + len(body))
WrittenRange(i) ==
    UNION {w.offset..(w.offset + w.len - 1) : w \in {join[i].writes[k] : k \in 1..Len(join[i].writes)}}

\* C7: the ranges written by the tasks of two different blocks are disjoint.
C7_DisjointWrites ==
    \A i, j \in Tasks : i # j => WrittenRange(i) \cap WrittenRange(j) = {}

\* two tasks have each written a non-empty body
C7_Witness ==
    \E i, j \in Tasks : i # j /\ WrittenRange(i) # {} /\ WrittenRange(j) # {}

\* C8: main starts one task per block, and when it has returned every one of
\* them has completed its write.
C8_JoinWaitsForAll ==
    /\ mainPc \in {"join", "returned"} =>
          /\ Len(join) = Len(info.blocks)
          /\ \A k \in BlockIds : join[k].f = info.blocks[k]
    /\ mainPc = "returned" =>
          \A i \in Tasks : join[i].state = "Completed" /\ Len(join[i].writes) = 1

C8_Witness == mainPc = "returned" /\ Len(join) >= 3

\* C9: without a content-length header planning fails before a block is
\* built: no block, no task, no request, and the file is never touched.
C9_MissingLength ==
    /\ [](headers.content_length = None =>
            /\ mainPc \in {"new", "panicked"}
            /\ info.blocks = <<>>
            /\ join = <<>>
            /\ file.data = <<>>)
    /\ [][headers.content_length = None => file' = file]_vars

C9_Witness == headers.content_length = None /\ mainPc = "panicked"

\* C11: a block's is_done flag is false in the plan and true once the
\* block's fetch and write have succeeded; after a successful run every block
\* has is_done = TRUE.
C11_DoneFlag ==
    /\ \A i \in Tasks :
          info.blocks[i].is_done <=> join[i].state = "Completed"
    /\ mainPc = "returned" => \A k \in BlockIds : info.blocks[k].is_done

\* the bytes the file holds at offset k - 1 after a step, as the contract of
\* write_file has it for buffer bytes placed at offset
Placed(old, bytes, offset, k) ==
    IF offset < k /\ k <= offset + Len(bytes) THEN bytes[k - offset]
    ELSE IF k <= Len(old) THEN old[k]
    ELSE 0

\* C12: write_file creates the file if absent, never truncates it, places the
\* whole buffer at [offset, offset + len(buffer)) and changes no other byte.
C12_WriteFrame ==
    [][\A i \in Tasks :
          (join[i].state = "Writing" /\ join'[i].state = "Completed") =>
              LET bytes  == join[i].bytes
                  offset == join[i].f.start
              IN  /\ file'.exists
                  /\ Len(file'.data) >= Len(file.data)
                  /\ bytes # <<>> => Len(file'.data) >= offset + Len(bytes)
                  /\ \A k \in 1..Len(file'.data) :
                        file'.data[k] = Placed(file.data, bytes, offset, k)]_vars

\* C18: a task completes only if write_at accepted every byte of the body.
C18_NoShortWriteSuccess ==
    \A i \in Tasks :
        join[i].state = "Completed" =>
            /\ Len(join[i].writes) = 1
            /\ join[i].writes[1].n = Len(join[i].bytes)

\* C13: each task's request carries bytes=<start>-<end> of its own block, the
\* body received for it is what is written, at the block's start, and no
\* write happens before the response has been received.
C13_RequestAndWrite ==
    /\ [](\A i \in Tasks :
            /\ join[i].request # <<>> =>
                  join[i].request =
                      <<(<<"bytes=", info.blocks[i].start, "-", info.blocks[i].end>>)>>
            /\ join[i].writes # <<>> =>
                  /\ join[i].request # <<>>
                  /\ join[i].writes[1].offset = info.blocks[i].start
                  /\ join[i].writes[1].len = Len(RangeBody(resource, join[i].request[1])))
    /\ [][\A i \in Tasks :
            join'[i].writes # join[i].writes =>
                /\ join[i].state = "Writing"
                /\ join[i].bytes = RangeBody(resource, join[i].request[1])]_vars

\* a task has written a non-empty body at a non-zero offset
C13_Witness ==
    \E i \in Tasks :
        /\ join[i].writes # <<>>
        /\ join[i].writes[1].len > 0
        /\ join[i].f.start > 0

BlockStates == {"Pending", "Fetching", "Writing", "Completed", "Failed"}

BlockTransitions ==
    {<<"Pending", "Fetching">>, <<"Fetching", "Writing">>, <<"Writing", "Completed">>,
     <<"Fetching", "Failed">>, <<"Writing", "Failed">>}

\* C14: a block moves only along Pending -> Fetching -> Writing -> Completed,
\* or from Fetching or Writing to Failed, and issues at most one request and
\* at most one write.
C14_BlockStateMachine ==
    /\ [](\A i \in Tasks :
            /\ join[i].state \in BlockStates
            /\ Len(join[i].request) <= 1
            /\ Len(join[i].writes) <= 1)
    /\ [][/\ (join = <<>> /\ join' # <<>>) =>
                \A i \in 1..Len(join') : join'[i].state = "Pending"
          /\ join # <<>> =>
                /\ Len(join') = Len(join)
                /\ \A i \in Tasks :
                      \/ join'[i].state = join[i].state
                      \/ <<join[i].state, join'[i].state>> \in BlockTransitions]_vars

\* one block has completed and another has failed
C14_Witness ==
    \E i, j \in Tasks : join[i].state = "Completed" /\ join[j].state = "Failed"

SomeFailed == \E i \in Tasks : join[i].state = "Failed"

\* C15: the first failure of a fetch or write aborts the job: the run never
\* returns, and no block takes a step afterwards.
C15_AbortOnFailure ==
    /\ [](SomeFailed =>
            /\ mainPc = "panicked"
            /\ Cardinality({i \in Tasks : join[i].state = "Failed"}) = 1)
    /\ [][SomeFailed => (join' = join /\ file' = file /\ mainPc' = mainPc)]_vars

\* a block has failed while siblings were pending, in flight and completed
C15_Witness ==
    /\ SomeFailed
    /\ \E i \in Tasks : join[i].state \in {"Pending", "Fetching", "Writing"}
    /\ \E i \in Tasks : join[i].state = "Completed"

\* C16: the plan, the requests and the writes are those of the run whose probe
\* gives any other accept-ranges value, and a ranged request is issued for
\* every block when flag_range is false.
C16_RangeFlagIgnored ==
    PlanBuilt =>
        /\ \A ar \in {None, Some("bytes"), Some("none")} :
              LET other == FileInfo_new([headers EXCEPT !.accept_ranges = ar], "w", thread)
              IN  /\ info.blocks = other.blocks
                  /\ \A i \in Tasks :
                        /\ join[i].request # <<>> =>
                              join[i].request[1] =
                                  RangeHeader(other.blocks[i].start, other.blocks[i].end)
                        /\ join[i].writes # <<>> =>
                              join[i].writes[1].offset = other.blocks[i].start
        /\ (mainPc = "returned" /\ ~info.flag_range) =>
              \A k \in BlockIds : Len(join[k].request) = 1

\* a run without advertised range support has fetched all its blocks
C16_Witness ==
    /\ mainPc = "returned"
    /\ headers.accept_ranges = None
    /\ ~info.flag_range
    /\ Len(join) >= 2

\* C17: when no fetch or write fails and every request is answered, a run
\* that has built its plan eventually has every block completed and returns.
C17_RunTerminates ==
    PlanBuilt ~> (mainPc = "returned" /\ AllCompleted)

C17_Witness == mainPc = "returned" /\ AllCompleted /\ Len(join) >= 3

\* C19: for totalLength >= 1 and parallelism >= 1, planning completes without
\* a division or remainder by zero exactly when parallelism <= totalLength;
\* otherwise the block size is 0 and planning crashes before a block is built.
C19_ZeroBlockSize ==
    (/\ mainPc # "new"
     /\ headers.content_length # None
     /\ TotalLength >= 1
     /\ Parallelism >= 1) =>
        /\ (panic \notin {"divide by zero", "remainder by zero"}) <=>
               (Parallelism <= TotalLength)
        /\ Parallelism <= TotalLength =>
               /\ panic = "none"
               /\ info.blocks # <<>>
        /\ Parallelism > TotalLength =>
               /\ TotalLength \div Parallelism = 0
               /\ panic = "remainder by zero"
               /\ mainPc = "panicked"
               /\ info.blocks = <<>>

\* planning has crashed on a non-empty resource with more threads than bytes
C19_Witness ==
    /\ mainPc = "panicked"
    /\ headers.content_length # None
    /\ TotalLength >= 1
    /\ Parallelism > TotalLength

\* C20 as stated: image/jpeg gives jpg, image/png gives png, audio/ogg gives
\* ogg, an absent or unrecognized content type gives the empty suffix, and the
\* destination path is the base name, '.', and the suffix.
C20_SuffixAsStated ==
    (PlanBuilt /\ headers.content_type \notin {Some("video/mp4"), Some("application/ogg")}) =>
        LET ct     == headers.content_type
            suffix == IF ct = None THEN ""
                      ELSE CASE ct[1] = "image/jpeg" -> "jpg"
                             [] ct[1] = "image/png"  -> "png"
                             [] ct[1] = "audio/ogg"  -> "ogg"
                             [] OTHER                -> ""
        IN  /\ info.suffix = suffix
            /\ info.save_as = <<"w", ".", suffix>>

\* C20 amended: image/jpeg gives jpg, image/png gives png, application/ogg
\* gives ogg, video/mp4 gives png, every other or absent content type
\* (audio/ogg included) gives the empty suffix, and the destination path is
\* the base name, '.', and the suffix.
C20_Suffix ==
    PlanBuilt =>
        LET ct     == headers.content_type
            suffix == IF ct = None THEN ""
                      ELSE CASE ct[1] = "image/jpeg"      -> "jpg"
                             [] ct[1] = "image/png"       -> "png"
                             [] ct[1] = "application/ogg" -> "ogg"
                             [] ct[1] = "video/mp4"       -> "png"
                             [] OTHER                     -> ""
        IN  /\ info.suffix = suffix
            /\ info.save_as = <<"w", ".", suffix>>

\* a plan built for an audio/ogg resource
C20_Witness == PlanBuilt /\ headers.content_type = Some("audio/ogg")

====
